---- MODULE Spec2Model ----
(***************************************************************************)
(* DomainEngine of holoclean (src/domain/domain.py): the setup pipeline    *)
(* find_correlations -> setup_attributes -> generate_domain ->             *)
(* store_domains, and the functions it is built from                       *)
(* (get_corr_attributes, preproc_pair_stats, get_domain_cell,              *)
(* get_random_domain).                                                     *)
(*                                                                         *)
(* Floats are kept exact: cor_strength, sampling_prob and the outcome of   *)
(* random.random() are counted in tenths (Tenths = 1.0), topk is a         *)
(* fraction num/den, and a Pearson coefficient is kept as the triple       *)
(* (c, vx, vy) with r = c / sqrt(vx * vy), NaN when vx * vy = 0.           *)
(***************************************************************************)
EXTENDS Integers, Sequences, FiniteSets, TLC

VARIABLES
    raw_data,           \* ds.get_raw_data(): the rows, each with its _tid_
    cor_strength,       \* self.cor_strength, in tenths
    sampling_prob,      \* self.sampling_prob, in tenths
    max_sample,         \* self.max_sample
    topk,               \* self.topk = env["pruning_topk"], a fraction
    correlations,       \* self.correlations
    active_attributes,  \* self.active_attributes, in its iteration order
    single_stats,       \* self.single_stats
    pair_stats,         \* self.pair_stats
    setup_complete,     \* self.setup_complete
    pc,                 \* where the engine is: idle, generate, error
    raised,             \* the exception that ended the run, "none" before
    pos,                \* generate_domain: the (row, attribute) visited next
    vid,                \* generate_domain: the next variable id
    cells,              \* generate_domain: the records emitted so far
    last,               \* generate_domain: the locals of the last iteration
    domain,             \* the table generate_domain returned
    stored,             \* the table store_domains handed to the sink
    ret                 \* the result of the last direct call of a function

vars == <<raw_data, cor_strength, sampling_prob, max_sample, topk, correlations,
          active_attributes, single_stats, pair_stats, setup_complete, pc, pos,
          vid, cells, last, domain, stored, ret, raised>>

----------------------------------------------------------------------------
(* Bounds of the model *)

MaxRows == 3        \* rows of a dataset the engine is set up on
MaxCellRows == 2    \* rows of a dataset get_domain_cell is called on
MaxUniverse == 4    \* rows of a dataset get_random_domain is called on
MaxSample == 3      \* largest max_sample get_random_domain is called with

(* Program values *)

Tenths == 10                \* 1.0 in the unit of cor_strength and sampling_prob
DefaultCorStrength == 1     \* cor_strength = 0.1
DefaultSamplingProb == 3    \* sampling_prob = 0.3
DefaultMaxSample == 5       \* max_sample = 5

NaN == "NaN"                \* a null value of the raw data (pd.isnull)
NullRepr == "_nan_"         \* the sentinel get_domain_cell uses for a null cell
Tid == "_tid_"

AttrOrder == <<"a", "b", "c">>          \* the columns, in the dataset's order
ValOrder == <<"_nan_", "x", "y", "z">>  \* the values, in sorted order

Range(s) == {s[i] : i \in DOMAIN s}

isnull(v) == v = NaN

Rank(v) == CHOOSE i \in DOMAIN ValOrder : ValOrder[i] = v

RECURSIVE SortedSeq(_)
(* the values of S in sorted order *)
SortedSeq(S) ==
    IF S = {} THEN <<>>
    ELSE LET m == CHOOSE v \in S : \A w \in S : Rank(v) <= Rank(w)
         IN  <<m>> \o SortedSeq(S \ {m})

(* every list that holds each element of S once: list(set) and random.sample
   give their elements in an order the program does not fix *)
ListsOf(S) ==
    {f \in [1..Cardinality(S) -> S] : \A v \in S : \E i \in DOMAIN f : f[i] = v}

RECURSIVE SumTo(_, _)
SumTo(f, n) == IF n = 0 THEN 0 ELSE f[n] + SumTo(f, n - 1)

----------------------------------------------------------------------------
(* The dataset collaborator *)

Columns(raw) == DOMAIN raw[1] \ {Tid}

ColumnSeq(raw) == SelectSeq(AttrOrder, LAMBDA a : a \in Columns(raw))

(* the datasets of 1..n rows over the columns cols with values in vals *)
Datasets(cols, vals, n) ==
    UNION {
        {[i \in 1..k |-> [a \in cols \cup {Tid} |->
                            IF a = Tid THEN i - 1 ELSE d[i][a]]] :
            d \in [1..k -> [cols -> vals]]}
        : k \in 1..n}

(* ds.get_statistics(): single_stats[a] counts the rows per value of a,
   pair_stats[a][b] is the frequency table (val of a, val of b, count) of the
   attribute b for the conditioning column a; groupby leaves null values out *)
NullAt(raw, i, a) == a # Tid /\ isnull(raw[i][a])

SingleStatistics(raw) ==
    [a \in DOMAIN raw[1] |->
        [v \in {raw[i][a] : i \in {j \in DOMAIN raw : ~NullAt(raw, j, a)}} |->
            Cardinality({i \in DOMAIN raw : ~NullAt(raw, i, a) /\ raw[i][a] = v})]]

PairFrame(raw, a, b) ==
    LET both == {i \in DOMAIN raw : ~NullAt(raw, i, a) /\ ~NullAt(raw, i, b)}
    IN  {<<raw[i][a], raw[i][b],
           Cardinality({j \in both : raw[j][a] = raw[i][a] /\ raw[j][b] = raw[i][b]})>> :
            i \in both}

PairStatistics(raw) ==
    [a \in DOMAIN raw[1] |-> [b \in Columns(raw) \ {a} |-> PairFrame(raw, a, b)]]

(* dataset.dictify: a frame of rows (val1, val2, count) as val1 -> val2 -> count *)
dictify(df) ==
    [v1 \in {r[1] : r \in df} |->
        [v2 \in {r[2] : r \in {q \in df : q[1] = v1}} |->
            (CHOOSE r \in df : r[1] = v1 /\ r[2] = v2)[3]]]

(* ds.get_cell_id *)
get_cell_id(tid, attr) == <<tid, attr>>

----------------------------------------------------------------------------
(* find_correlations *)

(* astype('category').cat.codes: a null is -1, a value its rank among the
   sorted distinct values of the column *)
Code(raw, a, i) ==
    LET v == raw[i][a]
    IN  IF a = Tid THEN v
        ELSE IF isnull(v) THEN -1
        ELSE Cardinality({w \in {raw[j][a] : j \in DOMAIN raw} \ {NaN} : Rank(w) < Rank(v)})

(* d.corr() of two coded columns: r = c / sqrt(vx * vy) *)
Pearson(raw, p, q) ==
    LET n   == Len(raw)
        x   == [i \in 1..n |-> Code(raw, p, i)]
        y   == [i \in 1..n |-> Code(raw, q, i)]
        sx  == SumTo(x, n)
        sy  == SumTo(y, n)
        sxy == SumTo([i \in 1..n |-> x[i] * y[i]], n)
        sxx == SumTo([i \in 1..n |-> x[i] * x[i]], n)
        syy == SumTo([i \in 1..n |-> y[i] * y[i]], n)
    IN  [c |-> n * sxy - sx * sy, vx |-> n * sxx - sx * sx, vy |-> n * syy - sy * sy]

(* the columns d keeps: those with a code other than 0 *)
KeptColumns(raw) ==
    {a \in DOMAIN raw[1] : \E i \in DOMAIN raw : Code(raw, a, i) # 0}

(* the matrix, or the KeyError of d.drop(['_tid_']) when _tid_ was not kept *)
find_correlations(raw) ==
    LET kept == KeptColumns(raw)
        cols == SelectSeq(ColumnSeq(raw), LAMBDA a : a \in kept)
    IN  IF Tid \notin kept
        THEN [exc |-> "KeyError", set |-> FALSE, cols |-> <<>>, m |-> <<>>]
        ELSE [exc |-> "none", set |-> TRUE, cols |-> cols,
              m |-> [p \in Range(cols) |-> [q \in Range(cols) |-> Pearson(raw, p, q)]]]

NoCorrelations == [exc |-> "none", set |-> FALSE, cols |-> <<>>, m |-> <<>>]

----------------------------------------------------------------------------
(* get_corr_attributes *)

(* abs(r) > t, t in tenths; False for a NaN coefficient *)
AbsExceeds(e, t) ==
    /\ e.vx * e.vy > 0
    /\ \/ t < 0
       \/ Tenths * Tenths * e.c * e.c > t * t * e.vx * e.vy

(* the index labels of d_temp[d_temp > self.cor_strength], in index order *)
AboveThreshold(cor, attr, t) ==
    SelectSeq(cor.cols, LAMBDA q : AbsExceeds(cor.m[attr][q], t))

corr_attributes(cor, attr, t) ==
    IF ~cor.set THEN [exc |-> "TypeError", val |-> <<>>]
    ELSE IF attr \notin Range(cor.cols) THEN [exc |-> "none", val |-> <<>>]
    ELSE LET above == AboveThreshold(cor, attr, t)
         IN  IF attr \notin Range(above)
             THEN [exc |-> "ValueError", val |-> <<>>]
             ELSE [exc |-> "none", val |-> SelectSeq(above, LAMBDA q : q # attr)]

get_corr_attributes(attr) == corr_attributes(correlations, attr, cor_strength)

----------------------------------------------------------------------------
(* preproc_pair_stats *)

EmptyTable == [v \in {} |-> <<>>]

(* faulty variant of AboveTau: a count equal to tau is kept *)
AboveTauOrEqual(v, k, denominator) == v * k.den >= k.num * denominator

(* v > tau with tau = float(self.topk * denominator) *)
AboveTau(v, k, denominator) == v * k.den > k.num * denominator

top_cands(counts, k, denominator) ==
    SortedSeq({c \in DOMAIN counts : AboveTau(counts[c], k, denominator)})

PairTable(df, single, k) ==
    IF df # {}
    THEN LET d == dictify(df)
         IN  [val \in DOMAIN d |-> top_cands(d[val], k, single[val])]
    ELSE EmptyTable

preproc_pair_stats(ps, single, k) ==
    [key1 \in DOMAIN ps \ {Tid} |->
        [key2 \in DOMAIN ps[key1] |-> PairTable(ps[key1][key2], single[key1], k)]]

----------------------------------------------------------------------------
(* get_domain_cell *)

(* the loop over the correlated attributes from position i on. acc holds the
   candidates collected so far (dom), the position where the loop broke off
   (brk, 0 when it did not), the attributes whose candidates were added (used)
   and the exception raised, if any *)
(* faulty variant of NeverObserved: a table is never taken as unobserved *)
NeverObservedNever(table) == FALSE

(* `not self.pair_stats[cond_attr][attr]`: the table has no key *)
NeverObserved(table) == DOMAIN table = {}

(* faulty variant of MissingKeyTolerated: the KeyError is always passed over *)
MissingKeyAlwaysTolerated(attr, row) == TRUE

(* the KeyError of s[cond_val] is passed over for a null cell *)
MissingKeyTolerated(attr, row) == isnull(row[attr])

RECURSIVE ScanCorrelated(_, _, _, _, _, _)
ScanCorrelated(cor, i, attr, row, ps, acc) ==
    IF i > Len(cor) THEN acc
    ELSE
    LET cond_attr == cor[i]
        cond_val  == row[cond_attr]
    IN  IF cond_attr = attr \/ cond_attr = "index" \/ cond_attr = Tid
        THEN ScanCorrelated(cor, i + 1, attr, row, ps, acc)
        ELSE IF isnull(cond_val)
        THEN ScanCorrelated(cor, i + 1, attr, row, ps, acc)
        ELSE IF cond_attr \notin DOMAIN ps \/ attr \notin DOMAIN ps[cond_attr]
        THEN [acc EXCEPT !.exc = "KeyError"]
        ELSE IF NeverObserved(ps[cond_attr][attr])
        THEN [acc EXCEPT !.brk = i]
        ELSE LET s == ps[cond_attr][attr]
             IN  IF cond_val \in DOMAIN s
                 THEN ScanCorrelated(cor, i + 1, attr, row, ps,
                          [acc EXCEPT !.dom = @ \cup Range(s[cond_val]),
                                      !.used = @ \cup {cond_attr}])
                 ELSE IF MissingKeyTolerated(attr, row)
                 THEN ScanCorrelated(cor, i + 1, attr, row, ps, acc)
                 ELSE [acc EXCEPT !.exc = "Exception"]

(* the initial value and the domain (a set: the caller lists it) *)
domain_cell(corr, attr, row, ps) ==
    LET init_value == IF isnull(row[attr]) THEN NullRepr ELSE row[attr]
        start == [exc |-> "none", dom |-> {}, brk |-> 0, used |-> {}]
    IN  IF corr.exc # "none"
        THEN [exc |-> corr.exc, init_value |-> init_value, dom |-> {},
              brk |-> 0, used |-> {}, cor |-> <<>>]
        ELSE LET scan == ScanCorrelated(corr.val, 1, attr, row, ps, start)
             IN  [exc |-> scan.exc, init_value |-> init_value,
                  dom |-> (scan.dom \ {NullRepr}) \cup {init_value},
                  brk |-> scan.brk, used |-> scan.used, cor |-> corr.val]

get_domain_cell(attr, row) ==
    domain_cell(get_corr_attributes(attr), attr, row, pair_stats)

----------------------------------------------------------------------------
(* get_random_domain *)

(* random.random(), in tenths: a value of [0, 1) *)
RandVals == 0..(Tenths - 1)

Declines(r) == r > sampling_prob

Min(a, b) == IF a < b THEN a ELSE b

(* random.sample(domain_pool, k): k distinct values of the pool, in any order *)
Samples(domain_pool, k) ==
    UNION {ListsOf(S) : S \in {T \in SUBSET domain_pool : Cardinality(T) = k}}

(* set(self.single_stats[attr].index.astype(str)) without cur_value *)
DomainPool(attr, cur_value) == DOMAIN single_stats[attr] \ {cur_value}

(* faulty variant of SampleSize: the cap max_sample is not applied *)
SampleSizeUncapped(size) == size

(* k = min(self.max_sample, size) *)
SampleSize(size) == Min(max_sample, size)

(* what a call can return, over the outcomes of the random generator *)
get_random_domain(attr, cur_value) ==
    {[exc |-> "none", val |-> <<>>] : r \in {q \in RandVals : Declines(q)}}
    \cup
    IF \A r \in RandVals : Declines(r) THEN {}
    ELSE IF attr \notin DOMAIN single_stats \/ cur_value \notin DOMAIN single_stats[attr]
    THEN {[exc |-> "KeyError", val |-> <<>>]}
    ELSE LET domain_pool == DomainPool(attr, cur_value)
             size == Cardinality(domain_pool)
         IN  IF size > 0
             THEN {[exc |-> "none", val |-> l] :
                      l \in Samples(domain_pool, SampleSize(size))}
             ELSE {[exc |-> "none", val |-> <<>>]}

----------------------------------------------------------------------------
(* The engine *)

NoTable == [set |-> FALSE, rows |-> <<>>]

config == <<raw_data, cor_strength, sampling_prob, max_sample, topk>>
attributes == <<active_attributes, single_stats, pair_stats, setup_complete>>
generation == <<pos, vid, cells, last>>

(* the state after DomainEngine.__init__, for a dataset of ds and parameters
   drawn from cs, sp, ms and tk. active_attributes = <<>> stands for None *)
InitWith(ds, cs, sp, ms, tk) ==
    /\ raw_data \in ds
    /\ cor_strength \in cs
    /\ sampling_prob \in sp
    /\ max_sample \in ms
    /\ topk \in tk
    /\ correlations = NoCorrelations
    /\ active_attributes = <<>>
    /\ single_stats = <<>>
    /\ pair_stats = <<>>
    /\ setup_complete = FALSE
    /\ pc = "idle"
    /\ raised = "none"
    /\ pos = [row |-> 0, attr |-> 0]
    /\ vid = 0
    /\ cells = <<>>
    /\ last = [kind |-> "none"]
    /\ domain = NoTable
    /\ stored = NoTable
    /\ ret = [fn |-> "none"]

Raise(e) == pc' = "error" /\ raised' = e

(* find_correlations: memoizes the matrix, or raises *)
FindCorrelations ==
    /\ pc = "idle"
    /\ ~correlations.set
    /\ LET m == find_correlations(raw_data)
       IN  IF m.exc # "none"
           THEN Raise(m.exc) /\ UNCHANGED correlations
           ELSE correlations' = m /\ UNCHANGED <<pc, raised>>
    /\ UNCHANGED <<config, attributes, generation, domain, stored, ret>>

(* what the query of get_active_attributes can return: the attributes with an
   erroneous cell, in the order the set is iterated in; empty when there are none *)
QueryResults(raw) == UNION {ListsOf(S) : S \in SUBSET Columns(raw)}

(* setup_attributes, for the query result `result` *)
SetupAttributes(result) ==
    /\ pc = "idle"
    /\ ~setup_complete
    /\ IF result = <<>>
       THEN Raise("NoActiveAttributes") /\ UNCHANGED attributes
       ELSE /\ active_attributes' = result
            /\ single_stats' = SingleStatistics(raw_data)
            /\ pair_stats' = preproc_pair_stats(PairStatistics(raw_data),
                                                SingleStatistics(raw_data), topk)
            /\ setup_complete' = TRUE
            /\ UNCHANGED <<pc, raised>>
    /\ UNCHANGED <<config, correlations, generation, domain, stored, ret>>

(* faulty variant of NotReady: the check of setup_complete is left out *)
NotReadyNever == FALSE

(* `if not self.setup_complete` *)
NotReady == ~setup_complete

(* generate_domain up to its loop: raises unless setup is complete *)
GenerateDomain ==
    /\ pc = "idle"
    /\ ~domain.set
    /\ IF NotReady
       THEN Raise("SetupIncomplete") /\ UNCHANGED <<pos, vid, cells>>
       ELSE /\ pc' = "generate"
            /\ cells' = <<>>
            /\ vid' = 0
            /\ pos' = [row |-> 1, attr |-> 1]
            /\ UNCHANGED raised
    /\ UNCHANGED <<config, correlations, attributes, last, domain, stored, ret>>

(* faulty variant of IndexOf: the position counted from 1 *)
IndexOfOneBased(l, v) == CHOOSE i \in DOMAIN l : l[i] = v /\ \A j \in 1..(i - 1) : l[j] # v

(* dom.index(init_value) *)
IndexOf(l, v) == (CHOOSE i \in DOMAIN l : l[i] = v /\ \A j \in 1..(i - 1) : l[j] # v) - 1

(* `if len(dom) > 1` *)
IsMulti(dom) == Len(dom) > 1

(* faulty variant of HasSample: an empty sample counts as one *)
HasSampleAlways(add_domain) == TRUE

(* `if len(add_domain) > 0` *)
HasSample(add_domain) == Len(add_domain) > 0

(* `dom.extend(self.get_random_domain(attr, init_value))`: the values a second
   call of the sampler returns, not add_domain *)
Extensions(attr, init_value, add_domain) == get_random_domain(attr, init_value)

(* faulty variant of NextVid: the counter is not advanced *)
NextVidStuck(v) == v

(* `vid += 1` *)
NextVid(v) == v + 1

(* the ways one iteration of the loop of generate_domain can go for a cell:
   over the order list(domain) gives and the outcomes of the calls of
   get_random_domain *)
CellOutcomes(attr, row) ==
    LET cell == get_domain_cell(attr, row)
        Out(kind, exc, dom, add, ext) ==
            [kind |-> kind, exc |-> exc, init_value |-> cell.init_value,
             dom |-> dom, add_domain |-> add, ext |-> ext]
    IN  IF cell.exc # "none"
        THEN {Out("raise", cell.exc, <<>>, <<>>, <<>>)}
        ELSE UNION {
            IF cell.init_value \notin Range(dom)
            THEN {Out("raise", "ValueError", dom, <<>>, <<>>)}
            ELSE IF IsMulti(dom)
            THEN {Out("multi", "none", dom, <<>>, <<>>)}
            ELSE UNION {
                IF add.exc # "none"
                THEN {Out("raise", add.exc, dom, <<>>, <<>>)}
                ELSE IF HasSample(add.val)
                THEN {IF e.exc # "none"
                      THEN Out("raise", e.exc, dom, add.val, <<>>)
                      ELSE Out("sampled", "none", dom, add.val, e.val) :
                        e \in Extensions(attr, cell.init_value, add)}
                ELSE {Out("skipped", "none", dom, <<>>, <<>>)}
                : add \in get_random_domain(attr, cell.init_value)}
            : dom \in ListsOf(cell.dom)}

(* the record generate_domain appends for a cell; domain is the list that
   "|||".join(dom) writes out, in its order *)
CellRecord(tid, attr, v, o) ==
    LET dom == o.dom \o o.ext
    IN  [tid |-> tid, attribute |-> attr, cid |-> get_cell_id(tid, attr), vid |-> v,
         domain |-> dom, domain_size |-> Len(dom), init_value |-> o.init_value,
         init_index |-> IndexOf(o.dom, o.init_value),
         fixed |-> IF o.kind = "multi" THEN 0 ELSE 1]

NextPos(p) ==
    IF p.attr < Len(active_attributes)
    THEN [row |-> p.row, attr |-> p.attr + 1]
    ELSE [row |-> p.row + 1, attr |-> 1]

(* one iteration of the loop of generate_domain. cells holds the records of
   the rows done and those of the current row (app); last holds the locals of
   the iteration *)
GenerateCell ==
    /\ pc = "generate"
    /\ pos.row <= Len(raw_data)
    /\ IF active_attributes = <<>>
       THEN Raise("TypeError") /\ UNCHANGED generation
       ELSE
       LET row  == raw_data[pos.row]
           attr == active_attributes[pos.attr]
       IN  \E o \in CellOutcomes(attr, row) :
            /\ last' = [kind |-> o.kind, exc |-> o.exc, init_value |-> o.init_value,
                        dom |-> o.dom, add_domain |-> o.add_domain, ext |-> o.ext,
                        tid |-> row[Tid], attribute |-> attr]
            /\ IF o.kind = "raise"
               THEN Raise(o.exc) /\ UNCHANGED <<cells, vid, pos>>
               ELSE /\ IF o.kind = "skipped"
                       THEN UNCHANGED <<cells, vid>>
                       ELSE /\ cells' = Append(cells, CellRecord(row[Tid], attr, vid, o))
                            /\ vid' = NextVid(vid)
                    /\ pos' = NextPos(pos)
                    /\ UNCHANGED <<pc, raised>>
    /\ UNCHANGED <<config, correlations, attributes, domain, stored, ret>>

(* generate_domain after its loop: returns the table *)
GenerateReturn ==
    /\ pc = "generate"
    /\ pos.row > Len(raw_data)
    /\ domain' = [set |-> TRUE, rows |-> cells]
    /\ pc' = "idle"
    /\ UNCHANGED <<config, correlations, attributes, generation, stored, ret, raised>>

(* store_domains: raises for an empty table, else hands it to the sink *)
StoreDomains ==
    /\ pc = "idle"
    /\ domain.set
    /\ ~stored.set
    /\ IF domain.rows = <<>>
       THEN Raise("EmptyDomain") /\ UNCHANGED stored
       ELSE stored' = domain /\ UNCHANGED <<pc, raised>>
    /\ UNCHANGED <<config, correlations, attributes, generation, domain, ret>>

----------------------------------------------------------------------------
(* Direct calls of the functions of an engine, one call in a run: a call
   leaves the engine as it was, so a second one adds nothing *)

others == <<config, correlations, attributes, generation, domain, stored, pc, raised>>

CallGetCorrAttributes(attr) ==
    /\ pc = "idle"
    /\ ret.fn = "none"
    /\ correlations.set
    /\ LET r == get_corr_attributes(attr)
       IN  ret' = [fn |-> "get_corr_attributes", attr |-> attr,
                   exc |-> r.exc, val |-> r.val]
    /\ UNCHANGED others

CallGetDomainCell(attr, row) ==
    /\ pc = "idle"
    /\ ret.fn = "none"
    /\ correlations.set
    /\ setup_complete
    /\ LET r == get_domain_cell(attr, row)
       IN  \E l \in IF r.exc = "none" THEN ListsOf(r.dom) ELSE {<<>>} :
             ret' = [fn |-> "get_domain_cell", attr |-> attr, row |-> row,
                     exc |-> r.exc, init_value |-> r.init_value, val |-> l,
                     brk |-> r.brk, used |-> r.used, cor |-> r.cor]
    /\ UNCHANGED others

CallGetRandomDomain(attr, cur_value) ==
    /\ pc = "idle"
    /\ ret.fn = "none"
    /\ setup_complete
    /\ \E o \in get_random_domain(attr, cur_value) :
         ret' = [fn |-> "get_random_domain", attr |-> attr, cur_value |-> cur_value,
                 exc |-> o.exc, val |-> o.val]
    /\ UNCHANGED others

----------------------------------------------------------------------------
(* Spec: the setup of an engine and the generation of its domains *)

Values == {"x", "y", NaN}

TopkNone == [num |-> 0, den |-> 1]
TopkHalf == [num |-> 1, den |-> 2]
TopkAll == [num |-> 1, den |-> 1]

Init ==
    InitWith(Datasets({"a", "b"}, Values, MaxRows), {DefaultCorStrength},
             {DefaultSamplingProb, Tenths}, {DefaultMaxSample}, {TopkNone, TopkHalf})

Next ==
    \/ FindCorrelations
    \/ \E q \in QueryResults(raw_data) : SetupAttributes(q)
    \/ GenerateDomain
    \/ GenerateCell
    \/ GenerateReturn
    \/ StoreDomains

Spec == Init /\ [][Next]_vars

(* SpecCorr: get_corr_attributes over the thresholds, 1.0 and above included *)

CorStrengths == {0, DefaultCorStrength, Tenths \div 2, Tenths, Tenths + 1}

InitCorr ==
    InitWith(Datasets({"a", "b", "c"}, Values, MaxRows), CorStrengths,
             {DefaultSamplingProb}, {DefaultMaxSample}, {TopkNone})

NextCorr ==
    \/ FindCorrelations
    \/ \E attr \in Columns(raw_data) : CallGetCorrAttributes(attr)

SpecCorr == InitCorr /\ [][NextCorr]_vars

(* SpecCell: get_domain_cell for any row, of the dataset or not *)

(* the statistics come from a dataset over CellValues, the row of the call
   from Values: "y" is a value the statistics never saw *)
CellValues == {"x", NaN}

CallRows(raw) ==
    {[a \in DOMAIN raw[1] |-> IF a = Tid THEN 0 ELSE r[a]] :
        r \in [Columns(raw) -> Values]}

InitCell ==
    InitWith(Datasets({"a", "b", "c"}, CellValues, MaxCellRows), {DefaultCorStrength},
             {DefaultSamplingProb}, {DefaultMaxSample}, {TopkNone, TopkAll})

NextCell ==
    \/ FindCorrelations
    \/ SetupAttributes(<<"a">>)
    \/ \E attr \in Columns(raw_data), row \in CallRows(raw_data) :
          CallGetDomainCell(attr, row)

SpecCell == InitCell /\ [][NextCell]_vars

(* SpecRand: get_random_domain over the universes and sample sizes *)

RandValues == Range(ValOrder) \cup {NaN}

InitRand ==
    InitWith(Datasets({"a"}, RandValues, MaxUniverse), {DefaultCorStrength},
             {DefaultSamplingProb, Tenths}, 0..MaxSample, {TopkNone})

NextRand ==
    \/ SetupAttributes(<<"a">>)
    \/ \E cur_value \in Range(ValOrder) : CallGetRandomDomain("a", cur_value)

SpecRand == InitRand /\ [][NextRand]_vars

----------------------------------------------------------------------------
(* Properties of generate_domain, under Spec *)

(* the raw value of the cell a record or an iteration is about *)
RawValue(tid, attr) == raw_data[tid + 1][attr]

(* the iteration just done found a singleton domain and the sampler gave
   nothing for it *)
SingletonUnsampled(l) ==
    /\ l.kind \notin {"none", "raise"}
    /\ Len(l.dom) = 1
    /\ l.add_domain = <<>>

HasRecord(rows, tid, attr) ==
    \E i \in DOMAIN rows : rows[i].tid = tid /\ rows[i].attribute = attr

(* C1: every record emitted with a variable id has domain_size >= 2 (every
   record carries a variable id) *)
C1_VidHasDomainAtLeastTwo ==
    \A i \in DOMAIN cells : cells[i].domain_size >= 2

C3_InitValueInDomain ==
    /\ \A i \in DOMAIN cells :
        LET c == cells[i]
            v == RawValue(c.tid, c.attribute)
        IN  /\ c.init_value = IF isnull(v) THEN NullRepr ELSE v
            /\ c.init_index \in 0..(Len(c.domain) - 1)
            /\ c.domain[c.init_index + 1] = c.init_value
            /\ \A j \in 1..c.init_index : c.domain[j] # c.init_value
            /\ c.domain_size = Len(c.domain)
    /\ (last.kind # "none" /\ (last.kind = "raise" => last.dom # <<>>)) =>
            /\ last.init_value \in Range(last.dom)
            /\ isnull(RawValue(last.tid, last.attribute)) => NullRepr \in Range(last.dom)

C3_Witness ==
    /\ \E i \in DOMAIN cells :
            /\ isnull(RawValue(cells[i].tid, cells[i].attribute))
            /\ cells[i].init_index > 0
    /\ \E i \in DOMAIN cells :
            /\ cells[i].fixed = 1
            /\ cells[i].domain_size > 1

AttrPos(attr) == CHOOSE k \in DOMAIN active_attributes : active_attributes[k] = attr

(* the vids of the rows are 0, 1, 2, ... and the rows are in traversal order *)
DenseInOrder(rows) ==
    /\ \A i \in DOMAIN rows : rows[i].vid = i - 1
    /\ \A i, j \in DOMAIN rows :
        i < j => \/ rows[i].tid < rows[j].tid
                 \/ /\ rows[i].tid = rows[j].tid
                    /\ AttrPos(rows[i].attribute) < AttrPos(rows[j].attribute)

(* C4: the variable ids of the output, in traversal order, are 0, 1, ..., n-1 *)
C4_VidsDense ==
    /\ DenseInOrder(cells)
    /\ vid = Len(cells)
    /\ DenseInOrder(domain.rows)
    /\ DenseInOrder(stored.rows)

C4_Witness ==
    /\ stored.set
    /\ Len(stored.rows) >= 3
    /\ Len(stored.rows) < Len(raw_data) * Len(active_attributes)
    /\ \E i, j \in DOMAIN stored.rows :
            stored.rows[i].fixed = 0 /\ stored.rows[j].fixed = 1 /\ i < j

(* C6: after setup, pair_stats has a table for every pair (A, B) of the raw
   statistics with A not _tid_; the table is empty for a frame of no rows,
   and else lists for each value v of A in the frame exactly the co-values
   whose count is above topk * single_stats[A][v] *)
C6_PairStatsPruned ==
    setup_complete =>
        LET raw == PairStatistics(raw_data)
        IN  /\ Tid \notin DOMAIN pair_stats
            /\ \A A \in DOMAIN raw \ {Tid} :
                /\ A \in DOMAIN pair_stats
                /\ \A B \in DOMAIN raw[A] :
                    /\ B \in DOMAIN pair_stats[A]
                    /\ LET df == raw[A][B]
                           t  == pair_stats[A][B]
                       IN  /\ df = {} => DOMAIN t = {}
                           /\ DOMAIN t = {r[1] : r \in df}
                           /\ \A v \in DOMAIN t :
                               /\ Range(t[v]) =
                                    {r[2] : r \in {q \in df :
                                        /\ q[1] = v
                                        /\ q[3] * topk.den > topk.num * single_stats[A][v]}}
                               /\ Len(t[v]) = Cardinality(Range(t[v]))

(* a count equal to the threshold was dropped *)
C6_Witness ==
    /\ setup_complete
    /\ topk.num > 0
    /\ \E r \in PairFrame(raw_data, "a", "b") :
        /\ r[3] * topk.den = topk.num * single_stats["a"][r[1]]
        /\ r[2] \notin Range(pair_stats["a"]["b"][r[1]])
    /\ \E r \in PairFrame(raw_data, "b", "a") :
        r[2] \in Range(pair_stats["b"]["a"][r[1]])

(* C9: a cell is generated and a table returned or stored only after setup
   has completed with a non-empty set of active attributes; generate_domain
   before that raises with no row visited, and setup_attributes with an
   empty query result raises with setup left incomplete *)
C9_GenerationGatedOnSetup ==
    /\ (pc = "generate" \/ last.kind # "none" \/ cells # <<>> \/ domain.set \/ stored.set)
            => (setup_complete /\ DOMAIN pair_stats # {})
    /\ setup_complete => active_attributes # <<>>
    /\ raised = "SetupIncomplete"
            => (~setup_complete /\ last.kind = "none" /\ cells = <<>> /\ pos.row = 0)
    /\ raised = "NoActiveAttributes"
            => (~setup_complete /\ active_attributes = <<>> /\ DOMAIN pair_stats = {}
                /\ last.kind = "none" /\ ~domain.set)

C9_Witness ==
    /\ raised = "SetupIncomplete"
    /\ correlations.set

----------------------------------------------------------------------------
(* Properties of get_corr_attributes, under SpecCorr *)

(* C5: get_corr_attributes(attr) returns exactly the attributes other than
   attr whose absolute correlation with attr exceeds the threshold, and the
   empty list for an attribute the matrix does not have *)
C5_CorrAttributesExact ==
    ret.fn = "get_corr_attributes" =>
        /\ ret.exc = "none"
        /\ ret.attr \notin Range(ret.val)
        /\ Range(ret.val) =
              IF ret.attr \in Range(correlations.cols)
              THEN {q \in Range(correlations.cols) \ {ret.attr} :
                        AbsExceeds(correlations.m[ret.attr][q], cor_strength)}
              ELSE {}

----------------------------------------------------------------------------
(* Properties of get_random_domain, under SpecRand *)

Universe(attr) == {raw_data[i][attr] : i \in DOMAIN raw_data} \ {NaN}

(* C7: with sampling_prob = 1.0 and a current value of the universe, the
   sample has no duplicate, is of universe values other than the current one,
   and is of length min(max_sample, universe_size - 1) *)
C7_SampleSize ==
    (/\ ret.fn = "get_random_domain"
     /\ sampling_prob = Tenths
     /\ ret.cur_value \in Universe(ret.attr))
    => /\ ret.exc = "none"
       /\ Len(ret.val) = Cardinality(Range(ret.val))
       /\ Range(ret.val) \subseteq Universe(ret.attr) \ {ret.cur_value}
       /\ Len(ret.val) = Min(max_sample, Cardinality(Universe(ret.attr)) - 1)

(* the cap binds: more alternatives than max_sample *)
C7_Witness ==
    /\ ret.fn = "get_random_domain"
    /\ sampling_prob = Tenths
    /\ ret.cur_value \in Universe(ret.attr)
    /\ max_sample >= 2
    /\ Len(ret.val) = max_sample
    /\ Cardinality(Universe(ret.attr)) - 1 > max_sample

----------------------------------------------------------------------------
(* Properties of get_domain_cell, under SpecCell *)

(* the k-th correlated attribute of the call has a value to look up *)
LooksUp(k) ==
    /\ ret.cor[k] \notin {ret.attr, "index", Tid}
    /\ ~isnull(ret.row[ret.cor[k]])

TableAt(k) == pair_stats[ret.cor[k]][ret.attr]

(* its table is the never-observed one *)
UnobservedAt(k) == LooksUp(k) /\ DOMAIN TableAt(k) = {}

(* its table has keys, but none for the value of the row *)
MissingAt(k) ==
    /\ LooksUp(k)
    /\ DOMAIN TableAt(k) # {}
    /\ ret.row[ret.cor[k]] \notin DOMAIN TableAt(k)

(* its table has candidates for the value of the row *)
FoundAt(k) == LooksUp(k) /\ ret.row[ret.cor[k]] \in DOMAIN TableAt(k)

CandidatesAt(k) == Range(TableAt(k)[ret.row[ret.cor[k]]])

NoStopBefore(k) == \A j \in 1..(k - 1) : ~UnobservedAt(j)

(* C8: a missing key in a non-empty pair table raises when the cell's own
   value is non-null, and no domain is returned; when it is null the key is
   passed over, the attribute adds no candidate and the later correlated
   attributes are still scanned *)
C8_MissingKey ==
    ret.fn = "get_domain_cell" =>
        \A k \in DOMAIN ret.cor :
            (MissingAt(k) /\ NoStopBefore(k)) =>
                IF ~isnull(ret.row[ret.attr])
                THEN ret.exc = "Exception" /\ ret.val = <<>>
                ELSE /\ ret.exc = "none"
                     /\ ret.cor[k] \notin ret.used
                     /\ \A j \in DOMAIN ret.cor :
                            (j > k /\ FoundAt(j) /\ NoStopBefore(j)) =>
                                /\ ret.cor[j] \in ret.used
                                /\ CandidatesAt(j) \ {NullRepr} \subseteq Range(ret.val)

(* the raise: a non-null cell, a key missing at the second attribute *)
C8_Witness ==
    /\ ret.fn = "get_domain_cell"
    /\ ret.exc = "Exception"
    /\ ~isnull(ret.row[ret.attr])
    /\ Len(ret.cor) = 2
    /\ FoundAt(1)
    /\ MissingAt(2)

(* the null cell: the key missing at the first attribute, candidates taken
   from the second *)
C8_WitnessNull ==
    /\ ret.fn = "get_domain_cell"
    /\ isnull(ret.row[ret.attr])
    /\ Len(ret.cor) = 2
    /\ MissingAt(1)
    /\ FoundAt(2)
    /\ CandidatesAt(2) # {}
    /\ Len(ret.val) = 2

(* C10: the scan stops early only at a correlated attribute with a non-null
   value whose pair table is the never-observed one (a raw frame of no rows);
   from there on no attribute adds candidates, those added before are kept;
   a table with keys does not stop the scan, even with all its lists empty *)
C10_StopOnlyAtUnobserved ==
    (ret.fn = "get_domain_cell" /\ ret.exc = "none") =>
        /\ ret.brk # 0 =>
                /\ ret.brk \in DOMAIN ret.cor
                /\ UnobservedAt(ret.brk)
                /\ PairFrame(raw_data, ret.cor[ret.brk], ret.attr) = {}
                /\ NoStopBefore(ret.brk)
        /\ (\E k \in DOMAIN ret.cor : UnobservedAt(k)) => ret.brk # 0
        /\ \A k \in DOMAIN ret.cor :
                ret.cor[k] \in ret.used <=> (FoundAt(k) /\ (ret.brk = 0 \/ k < ret.brk))
        /\ Range(ret.val) =
                {ret.init_value} \cup
                (UNION {CandidatesAt(k) : k \in {j \in DOMAIN ret.cor : ret.cor[j] \in ret.used}}
                    \ {NullRepr})

(* the stop: the first attribute is unobserved, the candidates of the second
   are not taken *)
C10_Witness ==
    /\ ret.fn = "get_domain_cell"
    /\ ret.exc = "none"
    /\ ret.brk = 1
    /\ Len(ret.cor) = 2
    /\ FoundAt(2)
    /\ \E v \in CandidatesAt(2) : v \notin Range(ret.val)

(* the candidates of the first attribute are kept when the second stops the scan *)
C10_WitnessKept ==
    /\ ret.fn = "get_domain_cell"
    /\ ret.exc = "none"
    /\ ret.brk = 2
    /\ ret.used = {ret.cor[1]}
    /\ \E v \in CandidatesAt(1) : v \in Range(ret.val) /\ v # ret.init_value

(* a table whose lists were all pruned to empty does not stop the scan *)
C10_WitnessPruned ==
    /\ ret.fn = "get_domain_cell"
    /\ ret.exc = "none"
    /\ ret.brk = 0
    /\ Len(ret.cor) = 2
    /\ FoundAt(1)
    /\ \A v \in DOMAIN TableAt(1) : TableAt(1)[v] = <<>>
    /\ ret.used = {ret.cor[1], ret.cor[2]}

====
